---------------------------- MODULE Spec2Model ----------------------------
(***************************************************************************)
(* Model of src/simulation_engine.py: the repeating simulation clock, the  *)
(* per-vehicle state machines, the snapshot builder and the WebSocket      *)
(* fan-out of the background loop.                                         *)
(*                                                                         *)
(* The routes file data/vitacura_fleet_routes.json is read once at import  *)
(* (lines 18-29).  Its content is an input of the program: Init draws the  *)
(* schedule and the vehicle definitions from bounded sets that have the    *)
(* shape of the shipped schedule (40 < 90 < 130 < 240: strictly increasing *)
(* markers, every route non-empty).                                        *)
(*                                                                         *)
(* Python lists are 0-based: a route is a function on 0 .. L-1.            *)
(***************************************************************************)
EXTENDS Integers, FiniteSets, Sequences, TLC

VARIABLES
    SCHEDULE,        \* _DATA["schedule"], read-only after import
    VEHICLES_DEF,    \* _DATA["vehicles"], read-only after import: id -> definition
    tick,            \* global tick counter
    vehicles_state,  \* id -> state dict
    ws_clients,      \* _ws_clients: the set of registered connections
    task,            \* _task: "none" | "running" | "done" (ended by an exception)
    pc,              \* position of _simulation_loop: "sleep" | "send"
    payload,         \* local payload of the loop (last snapshot it built)
    dead,            \* local dead of the loop
    cur,             \* the connection whose send_text the loop is awaiting
    it_used,         \* set iterator: size of the set when iteration began
    it_rest,         \* set iterator: the entries it has still to visit
    it_dirty,        \* set iterator: the table changed under it, size restored
    received,        \* history: connection -> << tick of the last snapshot it got
                     \*   since it was last registered or unregistered, was that in
                     \*   the current epoch >>, or << >>: none
    audience,        \* history: the registry when the pass in progress began
    epoch1,          \* history: the world after the first advance of the last epoch
    polled,          \* the value the last call of get_current_state returned
    live,            \* number of _simulation_loop tasks created and not finished
    tickets,         \* main.py: the rows of table "tickets", row i has id i
    areas            \* main.py: the names of the rows of table "areas"

vars == << SCHEDULE, VEHICLES_DEF, tick, vehicles_state, ws_clients, task, pc,
           payload, dead, cur, it_used, it_rest, it_dirty, received, audience,
           epoch1, polled, live, tickets, areas >>

---------------------------------------------------------------------------
(* Bounds of the model *)

\* longest route a vehicle definition carries
MaxRouteLen == 3
\* longest distance, in ticks, between two consecutive timeline markers
MaxStage == 2
\* number of WebSocket connections that can exist
MaxClients == 2
Handles == 1 .. MaxClients

---------------------------------------------------------------------------
(* The routes file: schedule and vehicle definitions *)

Len0(route) == Cardinality(DOMAIN route)

\* the dict r updated with the keys of s
Upd(r, s) == [k \in (DOMAIN r) \cup (DOMAIN s) |-> IF k \in DOMAIN s THEN s[k] ELSE r[k]]

\* a route of L distinct points [lat, lng]; base tells the routes apart
MkRoute(base, L) == [i \in 0 .. (L - 1) |-> << base + i, base + 50 + i >>]

HoldPoint(base) == << base + 99, base + 98 >>

Schedules ==
    { [suspect_spawn_tick   |-> a,
       intercept_start_tick |-> a + b,
       capture_tick         |-> a + b + c,
       reset_tick           |-> a + b + c + d] :
         a \in 1 .. MaxStage, b \in 1 .. MaxStage,
         c \in 1 .. MaxStage, d \in 1 .. MaxStage }

FixedDef ==
    [id |-> "base", type |-> "patrol", mode |-> "fixed", area |-> "centro",
     speed_kmh |-> 0, hold_position |-> HoldPoint(100)]

LoopDef(L) ==
    [id |-> "ronda", type |-> "patrol", mode |-> "loop", area |-> "norte",
     speed_kmh |-> 30, patrol_route |-> MkRoute(200, L)]

InterceptDef(L, M) ==
    [id |-> "movil", type |-> "patrol", mode |-> "loop_then_intercept_then_hold",
     area |-> "sur", speed_kmh |-> 40,
     patrol_route |-> MkRoute(300, L), intercept_route |-> MkRoute(400, M),
     hold_position |-> HoldPoint(300)]

SpawnDefault(L) ==
    [id |-> "sospechoso", type |-> "suspect", mode |-> "spawn_then_route_then_hold",
     area |-> "sur", speed_kmh |-> 50,
     route |-> MkRoute(500, L), hold_position |-> HoldPoint(500)]

\* S = 0: the definition has no "spawn_tick" key
SpawnDef(L, S) ==
    IF S = 0 THEN SpawnDefault(L) ELSE Upd(SpawnDefault(L), [spawn_tick |-> S])

VehicleIds == {"base", "ronda", "movil", "sospechoso"}

MkVehicles(l1, l2, l3, l4, S) ==
    [id \in VehicleIds |->
        CASE id = "base"       -> FixedDef
          [] id = "ronda"      -> LoopDef(l1)
          [] id = "movil"      -> InterceptDef(l2, l3)
          [] id = "sospechoso" -> SpawnDef(l4, S)]

SUSPECT_SPAWN_TICK   == SCHEDULE.suspect_spawn_tick
INTERCEPT_START_TICK == SCHEDULE.intercept_start_tick
CAPTURE_TICK         == SCHEDULE.capture_tick
RESET_TICK           == SCHEDULE.reset_tick

---------------------------------------------------------------------------
(* _init_vehicle_state *)

BaseState(vdef) ==
    [id |-> vdef.id, type |-> vdef.type, mode |-> vdef.mode, area |-> vdef.area,
     speed_kmh |-> vdef.speed_kmh, route_index |-> 0, phase |-> "patrol",
     visible |-> TRUE]

init_vehicle_state(vdef) ==
    LET state == BaseState(vdef) IN
    CASE vdef.mode = "fixed" ->
           Upd(state, [lat |-> vdef.hold_position[1], lng |-> vdef.hold_position[2],
                       phase |-> "hold"])
      [] vdef.mode = "loop" ->
           Upd(state, [patrol_route |-> vdef.patrol_route,
                       lat |-> vdef.patrol_route[0][1], lng |-> vdef.patrol_route[0][2],
                       phase |-> "patrol"])
      [] vdef.mode = "loop_then_intercept_then_hold" ->
           Upd(state, [patrol_route |-> vdef.patrol_route,
                       intercept_route |-> vdef.intercept_route,
                       hold_position |-> vdef.hold_position,
                       state_labels |-> IF "state_labels" \in DOMAIN vdef
                                        THEN vdef.state_labels ELSE << >>,
                       lat |-> vdef.patrol_route[0][1], lng |-> vdef.patrol_route[0][2],
                       phase |-> "patrol"])
      [] vdef.mode = "spawn_then_route_then_hold" ->
           Upd(state, [route |-> vdef.route,
                       hold_position |-> vdef.hold_position,
                       state_labels |-> IF "state_labels" \in DOMAIN vdef
                                        THEN vdef.state_labels ELSE << >>,
                       spawn_tick |-> IF "spawn_tick" \in DOMAIN vdef
                                      THEN vdef.spawn_tick ELSE SUSPECT_SPAWN_TICK,
                       visible |-> FALSE, phase |-> "hidden",
                       lat |-> vdef.route[0][1], lng |-> vdef.route[0][2]])

\* the vehicles_state that _reset builds
FreshWorld == [id \in DOMAIN VEHICLES_DEF |-> init_vehicle_state(VEHICLES_DEF[id])]

---------------------------------------------------------------------------
(* _advance: one step of one vehicle at the (already incremented) tick t *)

\* mutant of LoopMove: the index stops at the end of the route
LoopMoveNoWrap(state, route) ==
    LET idx == state.route_index IN
    Upd(state, [lat |-> route[idx][1], lng |-> route[idx][2],
                route_index |-> IF idx < Len0(route) - 1 THEN idx + 1 ELSE idx])

\* route[idx] with idx past the end raises IndexError: the state is marked
IndexError(state) == Upd(state, [phase |-> "IndexError"])

\* occupy route[route_index], then advance the index modulo the route length
LoopMove(state, route) ==
    LET idx == state.route_index IN
    IF idx \notin DOMAIN route THEN IndexError(state) ELSE
    Upd(state, [lat |-> route[idx][1], lng |-> route[idx][2],
                route_index |-> (idx + 1) % Len0(route)])

\* mutant of ClampMove: the index is clamped one point short of the end
ClampMoveShort(state, route) ==
    LET idx == state.route_index IN
    Upd(state, [lat |-> route[idx][1], lng |-> route[idx][2],
                route_index |-> IF idx < Len0(route) - 2 THEN idx + 1 ELSE idx])

\* mutant of ClampMove: the index wraps round
ClampMoveWrap(state, route) ==
    LET idx == state.route_index IN
    Upd(state, [lat |-> route[idx][1], lng |-> route[idx][2],
                route_index |-> (idx + 1) % Len0(route)])

\* occupy route[route_index], then advance the index, clamped at the end
ClampMove(state, route) ==
    LET idx == state.route_index IN
    IF idx \notin DOMAIN route THEN IndexError(state) ELSE
    Upd(state, [lat |-> route[idx][1], lng |-> route[idx][2],
                route_index |-> IF idx < Len0(route) - 1 THEN idx + 1 ELSE idx])

\* mutant of HoldMove: the phase changes, the vehicle stays where it is
HoldMoveStay(state) == Upd(state, [phase |-> "hold"])

HoldMove(state) ==
    Upd(state, [lat |-> state.hold_position[1], lng |-> state.hold_position[2],
                phase |-> "hold"])

AdvanceFixed(state) == Upd(state, [phase |-> "hold"])

AdvanceLoop(state) ==
    Upd(LoopMove(state, state.patrol_route), [phase |-> "patrol"])

\* mutant of AdvanceIntercept: the patrol cursor is kept for the intercept route
AdvanceInterceptKeep(state, t) ==
    IF t < INTERCEPT_START_TICK
    THEN Upd(LoopMove(state, state.patrol_route), [phase |-> "patrol"])
    ELSE IF t < CAPTURE_TICK
    THEN LET s1 == IF state.phase # "intercept"
                   THEN Upd(state, [phase |-> "intercept"])
                   ELSE state
         IN ClampMove(s1, s1.intercept_route)
    ELSE HoldMove(state)

AdvanceIntercept(state, t) ==
    IF t < INTERCEPT_START_TICK
    THEN Upd(LoopMove(state, state.patrol_route), [phase |-> "patrol"])
    ELSE IF t < CAPTURE_TICK
    THEN LET s1 == IF state.phase # "intercept"
                   THEN Upd(state, [route_index |-> 0, phase |-> "intercept"])
                   ELSE state
         IN ClampMove(s1, s1.intercept_route)
    ELSE HoldMove(state)

\* mutant of AdvanceSpawn: the vehicle is still hidden at its spawn tick
AdvanceSpawnLate(state, t) ==
    IF t <= state.spawn_tick
    THEN Upd(state, [visible |-> FALSE, phase |-> "hidden"])
    ELSE IF t < CAPTURE_TICK
    THEN LET s1 == Upd(state, [visible |-> TRUE])
             s2 == IF s1.phase = "hidden"
                   THEN Upd(s1, [route_index |-> 0, phase |-> "moving"])
                   ELSE s1
         IN ClampMove(s2, s2.route)
    ELSE Upd(HoldMove(state), [visible |-> TRUE])

AdvanceSpawn(state, t) ==
    IF t < state.spawn_tick
    THEN Upd(state, [visible |-> FALSE, phase |-> "hidden"])
    ELSE IF t < CAPTURE_TICK
    THEN LET s1 == Upd(state, [visible |-> TRUE])
             s2 == IF s1.phase = "hidden"
                   THEN Upd(s1, [route_index |-> 0, phase |-> "moving"])
                   ELSE s1
         IN ClampMove(s2, s2.route)
    ELSE Upd(HoldMove(state), [visible |-> TRUE])

AdvanceVehicle(state, t) ==
    CASE state.mode = "fixed" -> AdvanceFixed(state)
      [] state.mode = "loop" -> AdvanceLoop(state)
      [] state.mode = "loop_then_intercept_then_hold" -> AdvanceIntercept(state, t)
      [] state.mode = "spawn_then_route_then_hold" -> AdvanceSpawn(state, t)
      [] OTHER -> state

\* mutant of ResetDue: the reset comes one tick late
ResetDueLate(t) == t > RESET_TICK

\* does the incremented tick t trigger _reset?
ResetDue(t) == t >= RESET_TICK

\* mutant of AdvanceTick: the reset starts the new epoch at tick 1
AdvanceTickOne == IF ResetDue(tick + 1) THEN 1 ELSE tick + 1

\* the tick counter after _advance
AdvanceTick == IF ResetDue(tick + 1) THEN 0 ELSE tick + 1

\* mutant of AdvanceWorld: the reset carries the route cursors forward
AdvanceWorldCarry ==
    IF ResetDue(tick + 1)
    THEN [id \in DOMAIN vehicles_state |->
            Upd(FreshWorld[id], [route_index |-> vehicles_state[id].route_index])]
    ELSE [id \in DOMAIN vehicles_state |-> AdvanceVehicle(vehicles_state[id], tick + 1)]

\* mutant of AdvanceWorld: the reset puts the tick back and leaves the vehicles
AdvanceWorldKeep ==
    IF ResetDue(tick + 1)
    THEN vehicles_state
    ELSE [id \in DOMAIN vehicles_state |-> AdvanceVehicle(vehicles_state[id], tick + 1)]

\* vehicles_state after _advance
AdvanceWorld ==
    IF ResetDue(tick + 1)
    THEN FreshWorld
    ELSE [id \in DOMAIN vehicles_state |-> AdvanceVehicle(vehicles_state[id], tick + 1)]

---------------------------------------------------------------------------
(* _status_label and _build_payload *)

DefaultLabel(state) ==
    CASE state.phase = "patrol"    -> "patrullando"
      [] state.phase = "intercept" -> "acudiendo"
      [] state.phase = "hold"      -> IF state.type = "patrol"
                                      THEN "bloqueando" ELSE "neutralizado"
      [] state.phase = "hidden"    -> "oculto"
      [] state.phase = "moving"    -> "en_movimiento"
      [] state.phase = "detenido"  -> "detenido"
      [] OTHER                     -> state.phase

status_label(state) ==
    LET labels == IF "state_labels" \in DOMAIN state THEN state.state_labels ELSE << >>
    IN IF labels # << >> /\ state.phase \in DOMAIN labels
       THEN labels[state.phase]
       ELSE DefaultLabel(state)

Entry(state) ==
    [id |-> state.id, type |-> state.type, lat |-> state.lat, lng |-> state.lng,
     status |-> status_label(state), speed_kmh |-> state.speed_kmh,
     area |-> state.area, phase |-> state.phase]

\* the order of VEHICLES_DEF, which is the iteration order of vehicles_state
VehicleOrder == << "base", "ronda", "movil", "sospechoso" >>

\* mutant of VisibleEntries: hidden vehicles are listed too
VisibleEntriesAll(world, ids) == [i \in 1 .. Len(ids) |-> Entry(world[ids[i]])]

\* the entries of the vehicles that are not skipped: if not state["visible"]: continue
RECURSIVE VisibleEntries(_, _)
VisibleEntries(world, ids) ==
    IF ids = << >> THEN << >>
    ELSE LET state == world[Head(ids)] IN
         (IF state.visible THEN << Entry(state) >> ELSE << >>)
            \o VisibleEntries(world, Tail(ids))

\* mutant of build_payload: the snapshot carries the tick before the increment
build_payload_prev(t, world) ==
    [tick |-> IF t > 0 THEN t - 1 ELSE t, vehicles |-> VisibleEntries(world, VehicleOrder)]

build_payload(t, world) == [tick |-> t, vehicles |-> VisibleEntries(world, VehicleOrder)]

\* the loop has built no payload yet
NoPayload == [tick |-> -1, vehicles |-> << >>]

---------------------------------------------------------------------------
(* _simulation_loop: the for loop over _ws_clients                          *)
(*                                                                         *)
(* A step of the loop runs from one await to the next.  The set iterator   *)
(* raises RuntimeError when the size of the set differs from the size at   *)
(* the start of the iteration; when the set was changed and its size       *)
(* restored, the iteration goes on over a table that was rewritten under   *)
(* it: which of the present entries it still visits is not determined.     *)

\* the entries a set iterator can still yield
IterRests == IF it_dirty THEN SUBSET ws_clients ELSE {it_rest}

\* does the next step of the iterator raise RuntimeError?
IterRaises(clients, used) == Cardinality(clients) # used

\* the registry after the pass: _ws_clients.difference_update(dead)
Prune(clients, d) == clients \ d

\* for ws in _ws_clients: the next iteration step, with d the dead set so far
ForStep(used, rests, d) ==
    IF IterRaises(ws_clients, used)
    THEN \* RuntimeError leaves the coroutine: the task is done
         /\ task' = "done"
         /\ live' = live - 1
         /\ pc' = "sleep"
         /\ cur' = 0
         /\ it_used' = 0
         /\ it_rest' = {}
         /\ it_dirty' = FALSE
         /\ audience' = {}
         /\ ws_clients' = ws_clients
    ELSE \E rest \in rests :
           /\ task' = task
           /\ live' = live
           /\ it_dirty' = FALSE
           /\ IF rest = {}
              THEN /\ ws_clients' = Prune(ws_clients, d)
                   /\ pc' = "sleep"
                   /\ cur' = 0
                   /\ it_used' = 0
                   /\ it_rest' = {}
                   /\ audience' = {}
              ELSE \E ws \in rest :
                     /\ cur' = ws
                     /\ it_used' = used
                     /\ it_rest' = rest \ {ws}
                     /\ audience' = IF pc = "sleep" THEN ws_clients ELSE audience
                     /\ pc' = "send"
                     /\ ws_clients' = ws_clients

\* the sleep is over: _advance, _build_payload, dead = set(), first loop step
Tick ==
    /\ task = "running"
    /\ pc = "sleep"
    /\ tick' = AdvanceTick
    /\ vehicles_state' = AdvanceWorld
    /\ payload' = build_payload(tick', vehicles_state')
    /\ dead' = {}
    /\ ForStep(Cardinality(ws_clients), {ws_clients}, {})
    /\ received' = IF ResetDue(tick + 1)
                   THEN [ws \in Handles |-> IF received[ws] = << >> THEN << >>
                                            ELSE << received[ws][1], FALSE >>]
                   ELSE received
    /\ epoch1' = IF tick' = 1 THEN vehicles_state' ELSE epoch1
    /\ UNCHANGED << SCHEDULE, VEHICLES_DEF, tickets, areas, polled >>

\* await ws.send_text(payload_json) returns
SendOk ==
    /\ task = "running"
    /\ pc = "send"
    /\ received' = [received EXCEPT ![cur] = << payload.tick, TRUE >>]
    /\ ForStep(it_used, IterRests, dead)
    /\ UNCHANGED << SCHEDULE, VEHICLES_DEF, tickets, areas, polled, tick, vehicles_state, payload, dead,
                    epoch1 >>

\* mutant of SendFail: the exception of send_text leaves the coroutine
SendFailRaise ==
    /\ task = "running"
    /\ pc = "send"
    /\ task' = "done"
    /\ live' = live - 1
    /\ pc' = "sleep"
    /\ cur' = 0
    /\ it_used' = 0
    /\ it_rest' = {}
    /\ it_dirty' = FALSE
    /\ audience' = {}
    /\ UNCHANGED << SCHEDULE, VEHICLES_DEF, tickets, areas, polled, tick, vehicles_state, ws_clients,
                    payload, dead, received, epoch1 >>

\* await ws.send_text(payload_json) raises
SendFail ==
    /\ task = "running"
    /\ pc = "send"
    /\ dead' = dead \cup {cur}
    /\ ForStep(it_used, IterRests, dead')
    /\ UNCHANGED << SCHEDULE, VEHICLES_DEF, tickets, areas, polled, tick, vehicles_state, payload,
                    received, epoch1 >>

---------------------------------------------------------------------------
(* start_simulation, register_ws, unregister_ws *)

\* mutant of TaskIdle: a task is created at every call
TaskIdleAlways(t) == TRUE

\* if _task is None or _task.done()
TaskIdle(t) == t = "none" \/ t = "done"

\* a call while the task runs does nothing
start_simulation ==
    /\ IF TaskIdle(task)
       THEN /\ task' = "running"
            /\ live' = live + 1
            /\ pc' = "sleep"
       ELSE UNCHANGED << task, live, pc >>
    /\ UNCHANGED << SCHEDULE, VEHICLES_DEF, tickets, areas, polled, tick, vehicles_state, ws_clients,
                    payload, dead, cur, it_used, it_rest, it_dirty, received,
                    audience, epoch1 >>

\* mutant of SetAdd: adding a present element removes it
SetAddToggle(clients, ws) == IF ws \in clients THEN clients \ {ws} ELSE clients \cup {ws}

\* set.add
SetAdd(clients, ws) == clients \cup {ws}

\* set.discard: no KeyError for an absent element
SetDiscard(clients, ws) == clients \ {ws}

register_ws(ws) ==
    /\ ws_clients' = SetAdd(ws_clients, ws)
    /\ it_dirty' = (it_dirty \/ (pc = "send" /\ ws \notin ws_clients))
    /\ received' = IF ws \in ws_clients THEN received
                   ELSE [received EXCEPT ![ws] = << >>]
    /\ UNCHANGED << SCHEDULE, VEHICLES_DEF, tickets, areas, polled, tick, vehicles_state, task, pc, payload,
                    dead, cur, it_used, it_rest, audience, epoch1, live >>

unregister_ws(ws) ==
    /\ ws_clients' = SetDiscard(ws_clients, ws)
    /\ it_dirty' = (it_dirty \/ (pc = "send" /\ ws \in ws_clients))
    /\ received' = [received EXCEPT ![ws] = << >>]
    /\ UNCHANGED << SCHEDULE, VEHICLES_DEF, tickets, areas, polled, tick, vehicles_state, task, pc, payload,
                    dead, cur, it_used, it_rest, audience, epoch1, live >>

\* mutant of CurrentState: the caller is handed the loop's last payload
CurrentStateCached == payload

\* return _build_payload(): a snapshot of the world as it is now
CurrentState == build_payload(tick, vehicles_state)

get_current_state ==
    /\ polled' = CurrentState
    /\ UNCHANGED << SCHEDULE, VEHICLES_DEF, tickets, areas,
                    tick, vehicles_state, ws_clients, task,
                    pc, payload, dead, cur, it_used, it_rest, it_dirty, received,
                    audience, epoch1, live >>

---------------------------------------------------------------------------
(* Specifications *)

\* the module has been imported: _reset() has run, nothing else
InitEngine ==
    /\ tick = 0
    /\ vehicles_state = FreshWorld
    /\ ws_clients = {}
    /\ task = "none"
    /\ pc = "sleep"
    /\ payload = NoPayload
    /\ dead = {}
    /\ cur = 0
    /\ it_used = 0
    /\ it_rest = {}
    /\ it_dirty = FALSE
    /\ received = [ws \in Handles |-> << >>]
    /\ audience = {}
    /\ epoch1 = << >>
    /\ polled = NoPayload
    /\ live = 0
    /\ tickets = << >>
    /\ areas = {}

\* the shortest schedule, one route length for all vehicles
Init ==
    /\ SCHEDULE \in { s \in Schedules : s.reset_tick = 4 }
    /\ VEHICLES_DEF = MkVehicles(MaxRouteLen, MaxRouteLen, MaxRouteLen, MaxRouteLen, 0)
    /\ InitEngine

Next ==
    \/ start_simulation
    \/ Tick
    \/ SendOk
    \/ SendFail
    \/ \E ws \in Handles : register_ws(ws)
    \/ \E ws \in Handles : unregister_ws(ws)

Spec == Init /\ [][Next]_vars

\* every schedule, every spawn tick before the capture (0: the default) and every
\* route length: Lp for the patrol route of the intercepting vehicle, which hands
\* its cursor over to a route of another length, and L for all other routes (the
\* vehicles do not read each other); no client ever connects
InitClock ==
    /\ SCHEDULE \in Schedules
    /\ \E L \in 1 .. MaxRouteLen, Lp \in 1 .. MaxRouteLen :
         \E S \in 0 .. (SCHEDULE.capture_tick - 1) :
            VEHICLES_DEF = MkVehicles(L, Lp, L, L, S)
    /\ InitEngine

NextClock ==
    \/ start_simulation
    \/ Tick

SpecClock == InitClock /\ [][NextClock]_vars

\* a client whose connection accepts a send and never completes it
SlowClient == MaxClients

\* the event loop resumes the coroutine when its sleep is over and when a send to
\* a responsive client returns or raises; nothing makes a send to SlowClient end
SpecStall ==
    /\ Init
    /\ [][Next]_vars
    /\ WF_vars(Tick)
    /\ WF_vars((SendOk \/ SendFail) /\ cur # SlowClient)

\* the phases _advance and _init_vehicle_state assign
Phases == {"patrol", "intercept", "hold", "hidden", "moving"}

\* a "state_labels" dict with an entry for the phases of S
CustomLabels(S) == [p \in S |-> "custom_" \o p]

\* the definitions defs, each with the "state_labels" dict labels
WithLabels(defs, labels) ==
    [id \in DOMAIN defs |-> Upd(defs[id], [state_labels |-> labels])]

\* the shortest schedule; either no definition has a "state_labels" key, or all
\* four carry the same dict, with entries for any set of phases
InitLabels ==
    /\ SCHEDULE \in { s \in Schedules : s.reset_tick = 4 }
    /\ LET defs == MkVehicles(MaxRouteLen, MaxRouteLen, MaxRouteLen, MaxRouteLen, 0)
       IN \/ VEHICLES_DEF = defs
          \/ \E S \in SUBSET Phases : VEHICLES_DEF = WithLabels(defs, CustomLabels(S))
    /\ InitEngine

SpecLabels == InitLabels /\ [][NextClock]_vars

\* the shipped schedule (lines 26-29) and a suspect route of 50 points
ExampleSpawn == 40
ExampleIntercept == 90
ExampleCapture == 130
ExampleReset == 240
ExampleRouteLen == 50

InitExample ==
    /\ SCHEDULE = [suspect_spawn_tick   |-> ExampleSpawn,
                   intercept_start_tick |-> ExampleIntercept,
                   capture_tick         |-> ExampleCapture,
                   reset_tick           |-> ExampleReset]
    /\ \E L \in 1 .. MaxRouteLen :
          VEHICLES_DEF = MkVehicles(L, L, L, ExampleRouteLen, 0)
    /\ InitEngine

SpecExample == InitExample /\ [][NextClock]_vars

\* one client, and a caller of get_current_state that runs whenever the loop is
\* suspended (in its sleep or in a send)
OneClient == CHOOSE ws \in Handles : TRUE

NextPoll ==
    \/ start_simulation
    \/ Tick
    \/ SendOk
    \/ SendFail
    \/ register_ws(OneClient)
    \/ unregister_ws(OneClient)
    \/ get_current_state

SpecPoll == Init /\ [][NextPoll]_vars

---------------------------------------------------------------------------
(* Properties of the vehicle state machines and of the epoch (SpecClock)    *)

Coord(state) == << state.lat, state.lng >>

Min(a, b) == IF a < b THEN a ELSE b

OfMode(mode) == { id \in DOMAIN vehicles_state : vehicles_state[id].mode = mode }

\* C1 as stated: a loop-mode vehicle with a route of length L is at
\* route[tick mod L] at every tick of every epoch.
C1_Original ==
    \A id \in OfMode("loop") :
        LET st == vehicles_state[id] IN
        Coord(st) = st.patrol_route[tick % Len0(st.patrol_route)]

\* C1 amended: a loop-mode vehicle is at route[0] at tick 0 and at
\* route[(tick - 1) mod L] at every tick >= 1 of every epoch: the first advance
\* occupies route[0] again.
C1_LoopPosition ==
    \A id \in OfMode("loop") :
        LET st == vehicles_state[id]
            L  == Len0(st.patrol_route)
        IN /\ st.phase = "patrol"
           /\ Coord(st) = st.patrol_route[IF tick = 0 THEN 0 ELSE (tick - 1) % L]

\* a loop vehicle has gone round its route and started again
C1_Witness ==
    \E id \in OfMode("loop") :
        LET L == Len0(vehicles_state[id].patrol_route) IN
        /\ L >= 2
        /\ tick = L + 2
        /\ Coord(vehicles_state[id]) = vehicles_state[id].patrol_route[1]

\* C2 as stated: in the gated stage the cursor after the advance of tick t is
\* min(t - start, len - 1), for the intercept stage (start = intercept-start) and
\* for the moving stage (start = spawn tick); it is 0 at t = start.
C2_Original ==
    /\ \A id \in OfMode("loop_then_intercept_then_hold") :
          LET st == vehicles_state[id] IN
          (INTERCEPT_START_TICK <= tick /\ tick < CAPTURE_TICK) =>
              /\ st.phase = "intercept"
              /\ st.route_index =
                    Min(tick - INTERCEPT_START_TICK, Len0(st.intercept_route) - 1)
    /\ \A id \in OfMode("spawn_then_route_then_hold") :
          LET st == vehicles_state[id] IN
          (st.spawn_tick <= tick /\ tick < CAPTURE_TICK) =>
              st.route_index = Min(tick - st.spawn_tick, Len0(st.route) - 1)

\* C2 amended: in the gated stage the vehicle occupies
\* route[min(t - start, len - 1)] (route[0] at t = start), and the cursor after
\* the advance of tick t is one ahead, clamped: min(t - start + 1, len - 1).
C2_ClampedCursor ==
    /\ \A id \in OfMode("loop_then_intercept_then_hold") :
          LET st == vehicles_state[id]
              n  == Len0(st.intercept_route)
              k  == tick - INTERCEPT_START_TICK
          IN (INTERCEPT_START_TICK <= tick /\ tick < CAPTURE_TICK) =>
                /\ st.phase = "intercept"
                /\ Coord(st) = st.intercept_route[Min(k, n - 1)]
                /\ st.route_index = Min(k + 1, n - 1)
    /\ \A id \in OfMode("spawn_then_route_then_hold") :
          LET st == vehicles_state[id]
              n  == Len0(st.route)
              k  == tick - st.spawn_tick
          IN (st.spawn_tick <= tick /\ tick < CAPTURE_TICK) =>
                /\ st.phase = "moving"
                /\ Coord(st) = st.route[Min(k, n - 1)]
                /\ st.route_index = Min(k + 1, n - 1)

\* both gated vehicles are parked at the end of a route of two points or more
\* that they exhausted before the capture
C2_Witness ==
    /\ tick < CAPTURE_TICK
    /\ \E id \in OfMode("loop_then_intercept_then_hold") :
          LET st == vehicles_state[id] IN
          /\ Len0(st.intercept_route) >= 2
          /\ tick - INTERCEPT_START_TICK >= Len0(st.intercept_route) - 1
          /\ st.route_index = Len0(st.intercept_route) - 1
    /\ \E id \in OfMode("spawn_then_route_then_hold") :
          LET st == vehicles_state[id] IN
          /\ Len0(st.route) >= 2
          /\ tick - st.spawn_tick >= Len0(st.route)
          /\ st.phase = "moving"

\* C3: from the capture tick to the reset a gated vehicle is at its hold point in
\* phase hold, wherever its cursor stood.
C3_Hold ==
    \A id \in OfMode("loop_then_intercept_then_hold")
                 \cup OfMode("spawn_then_route_then_hold") :
        LET st == vehicles_state[id] IN
        (CAPTURE_TICK <= tick /\ tick < RESET_TICK) =>
            /\ Coord(st) = st.hold_position
            /\ st.phase = "hold"

\* a gated vehicle is held for the second tick running, its cursor short of the
\* end of the route it was on
C3_Witness ==
    /\ tick > CAPTURE_TICK
    /\ \E id \in OfMode("loop_then_intercept_then_hold") :
          LET st == vehicles_state[id] IN
          /\ st.route_index < Len0(st.intercept_route) - 1
          /\ st.phase = "hold"
    /\ \E id \in OfMode("spawn_then_route_then_hold") :
          vehicles_state[id].phase = "hold"

\* C4: a spawn-mode vehicle is invisible at every tick below its spawn tick S,
\* becomes visible in phase moving at tick S, and stays visible until the reset.
C4_Visibility ==
    \A id \in OfMode("spawn_then_route_then_hold") :
        LET st == vehicles_state[id] IN
        /\ (tick < st.spawn_tick) => (~st.visible /\ st.phase = "hidden")
        /\ (tick = st.spawn_tick) => (st.visible /\ st.phase = "moving")
        /\ (tick >= st.spawn_tick) => st.visible

\* a vehicle with a spawn tick of its own, other than the schedule's, has spawned
C4_Witness ==
    \E id \in OfMode("spawn_then_route_then_hold") :
        LET st == vehicles_state[id] IN
        /\ st.spawn_tick # SUSPECT_SPAWN_TICK
        /\ st.spawn_tick >= 2
        /\ tick = st.spawn_tick
        /\ st.visible

\* the construction-time state of a vehicle, spelled out per mode
Pristine(st, vdef) ==
    /\ st.route_index = 0
    /\ CASE st.mode = "fixed" ->
              st.phase = "hold" /\ st.visible /\ Coord(st) = vdef.hold_position
         [] st.mode = "loop" ->
              st.phase = "patrol" /\ st.visible /\ Coord(st) = vdef.patrol_route[0]
         [] st.mode = "loop_then_intercept_then_hold" ->
              st.phase = "patrol" /\ st.visible /\ Coord(st) = vdef.patrol_route[0]
         [] st.mode = "spawn_then_route_then_hold" ->
              st.phase = "hidden" /\ ~st.visible /\ Coord(st) = vdef.route[0]

\* the step in which the incremented tick reaches the reset marker
ResetStep == pc = "sleep" /\ tick + 1 = RESET_TICK /\ tick' # tick

\* C5: when the incremented tick reaches the reset marker, the tick counter and
\* every vehicle return together to their construction-time values, and the world
\* after the first advance that follows is the world at tick 1 of the epoch before.
C5_Reset ==
    [][ /\ ResetStep =>
            /\ tick' = 0
            /\ \A id \in DOMAIN VEHICLES_DEF :
                  Pristine(vehicles_state'[id], VEHICLES_DEF[id])
        /\ (tick' = 1 /\ epoch1 # << >>) => vehicles_state' = epoch1
      ]_vars

\* an epoch has been played and the reset has put the world back
C5_Witness ==
    /\ tick = 0
    /\ epoch1 # << >>
    /\ payload.tick = 0
    /\ \E id \in OfMode("spawn_then_route_then_hold") : ~vehicles_state[id].visible

---------------------------------------------------------------------------
(* Properties of the broadcast (Spec, SpecStall)                            *)

\* the step delivers a snapshot to ws that differs from the last one it got
Delivered(ws) ==
    /\ received'[ws] # received[ws]
    /\ received'[ws] # << >>
    /\ received'[ws][2]

\* C6 as stated: the period in which the tick reaches the reset marker delivers
\* no snapshot: no subscriber ever gets the snapshot of the reset period (tick 0).
C6_Original == \A ws \in Handles : received[ws] # << 0, TRUE >>

\* C6 amended: in the period in which the incremented tick reaches the reset
\* marker the world is reinitialized and no vehicle is advanced, but a snapshot is
\* still built and broadcast: the registered subscribers are sent the snapshot of
\* the reinitialized world, tick 0, and the snapshot built after it is tick 1.
C6_ResetBroadcast ==
    [][ /\ ResetStep =>
            /\ tick' = 0
            /\ \A id \in DOMAIN VEHICLES_DEF :
                  Pristine(vehicles_state'[id], VEHICLES_DEF[id])
            /\ payload'.tick = 0
            /\ payload'.vehicles = VisibleEntries(vehicles_state', VehicleOrder)
            /\ (ws_clients # {}) => (pc' = "send" /\ cur' \in ws_clients)
        /\ \A ws \in Handles :
              (tick = 0 /\ Delivered(ws)) => received'[ws] = << 0, TRUE >>
        /\ (tick = 0 /\ tick' # tick) => (tick' = 1 /\ payload'.tick = 1)
      ]_vars

\* a subscriber has got the snapshot of the reset period
C6_Witness ==
    \E ws \in ws_clients : received[ws] = << 0, TRUE >> /\ payload.tick = 0

\* C7 as stated: registering or unregistering a subscriber while a pass is in
\* progress does not disturb the pass, and the loop keeps running: the loop task
\* never ends.
C7_Original == task # "done"

\* C8 as stated: when a pass ends, every subscriber it was made over that is
\* still registered and did not fail has got the tick's snapshot, and no failing
\* subscriber is left in the registry.
C8_Original ==
    [][ (pc = "send" /\ pc' = "sleep") =>
            /\ \A ws \in (audience \cap ws_clients) \ dead' :
                  received'[ws] = << payload.tick, TRUE >>
            /\ ws_clients' \cap dead' = {}
      ]_vars

\* C9 as stated: a delivery that is slow or never completes keeps neither the
\* other subscribers from the tick's snapshot nor the clock from the next tick:
\* every pass in progress ends, and every other subscriber it has still to
\* visit is visited.
C9_Original ==
    /\ (pc = "send") ~> (pc = "sleep")
    /\ \A ws \in Handles \ {SlowClient} :
          (pc = "send" /\ ws \in it_rest) ~> (pc = "sleep" \/ ws \notin it_rest)

\* C10 as stated: the ticks of the snapshots a subscriber receives increase.
C10_Original ==
    [][ \A ws \in Handles :
          (Delivered(ws) /\ received[ws] # << >>) =>
              received'[ws][1] > received[ws][1]
      ]_vars

\* C10 amended: every snapshot a subscriber receives is the snapshot of the
\* current tick, so a subscriber registered while the loop sleeps never gets a
\* snapshot built before it registered, and the ticks a subscriber receives
\* increase within an epoch; at the epoch reset they start again from 0.
C10_Order ==
    [][ \A ws \in Handles :
          Delivered(ws) =>
              /\ received'[ws][1] = tick
              /\ payload.vehicles = VisibleEntries(vehicles_state, VehicleOrder)
              /\ (received[ws] # << >> /\ received[ws][2]) =>
                    received'[ws][1] > received[ws][1]
      ]_vars

\* a subscriber that got a snapshot earlier in the epoch has just got the next
C10_Witness ==
    \E ws \in ws_clients :
        /\ received[ws] = << tick, TRUE >>
        /\ tick >= 2
        /\ pc = "sleep"
        /\ task = "running"

---------------------------------------------------------------------------
(* C11 *)

\* the world t advances after a reset
RECURSIVE WorldAt(_)
WorldAt(t) ==
    IF t = 0 THEN FreshWorld
    ELSE LET w == WorldAt(t - 1) IN
         [id \in DOMAIN w |-> AdvanceVehicle(w[id], t)]

\* the snapshot the loop built last, or that of the initial world before any
LastBuilt == IF payload = NoPayload THEN build_payload(0, FreshWorld) ELSE payload

\* C11: whenever get_current_state is called (the loop being in its sleep or
\* suspended in a send), the value it returns is the snapshot the loop built at
\* the last completed tick, or the snapshot of the initial world when no tick
\* has completed: never a world that is partly advanced or partly reset
C11_CurrentState ==
    /\ CurrentState = LastBuilt
    /\ polled # NoPayload =>
          \/ polled = build_payload(0, FreshWorld)
          \/ polled = build_payload(polled.tick, WorldAt(polled.tick))

C11_Witness ==
    /\ pc = "send"
    /\ polled # NoPayload
    /\ polled.tick >= 1
    /\ polled = payload
    /\ \E i \in DOMAIN polled.vehicles : polled.vehicles[i].phase = "intercept"

---------------------------------------------------------------------------
(* C12 *)

\* C12: registering a connection that is registered already changes nothing
\* (the registry is the same after one and after two registrations, so the
\* connection is visited once per pass), and unregistering a connection that
\* is not registered leaves the registry as it is and raises nothing
C12_Idempotent ==
    \A ws \in Handles :
       /\ SetAdd(SetAdd(ws_clients, ws), ws) = SetAdd(ws_clients, ws)
       /\ Cardinality(SetAdd(SetAdd(ws_clients, ws), ws)) =
             Cardinality(ws_clients \cup {ws})
       /\ ws \in ws_clients => SetAdd(ws_clients, ws) = ws_clients
       /\ ws \notin ws_clients => SetDiscard(ws_clients, ws) = ws_clients

C12_Witness ==
    /\ pc = "send"
    /\ \E ws \in Handles : ws \in ws_clients /\ received[ws] # << >>
    /\ \E ws \in Handles : ws \notin ws_clients

---------------------------------------------------------------------------
(* C13 *)

\* the spawn tick of a spawn-mode definition
SpawnTickOf(vdef) ==
    IF "spawn_tick" \in DOMAIN vdef THEN vdef.spawn_tick ELSE SUSPECT_SPAWN_TICK

\* the ids a snapshot lists
Listed(p) == { p.vehicles[i].id : i \in DOMAIN p.vehicles }

\* p is a snapshot of the present world that lists the visible vehicles, once each
ListsVisible(p) ==
    /\ Listed(p) = { id \in VehicleIds : vehicles_state[id].visible }
    /\ Len(p.vehicles) = Cardinality(Listed(p))
    /\ \A id \in VehicleIds :
          IF VEHICLES_DEF[id].mode = "spawn_then_route_then_hold"
          THEN p.tick < SpawnTickOf(VEHICLES_DEF[id]) => id \notin Listed(p)
          ELSE id \in Listed(p)

\* C13: every snapshot _build_payload produces (the one the loop built last and
\* the one get_current_state would return now) lists exactly the vehicles whose
\* visible flag is true: a spawn-mode vehicle is in no snapshot whose tick is
\* below its spawn tick, and every vehicle of another mode is in every snapshot
C13_VisibleOnly ==
    /\ payload # NoPayload => ListsVisible(payload)
    /\ ListsVisible(CurrentState)

C13_Witness ==
    /\ payload.tick >= 1
    /\ payload.tick < SpawnTickOf(VEHICLES_DEF["sospechoso"])
    /\ Listed(payload) = VehicleIds \ {"sospechoso"}
    /\ epoch1 # << >>

---------------------------------------------------------------------------
(* C14 *)

\* the "state_labels" dict of a definition, empty when it has none
LabelsOf(vdef) == IF "state_labels" \in DOMAIN vdef THEN vdef.state_labels ELSE << >>

\* the status the claim gives a vehicle of definition vdef in phase ph
ClaimedStatus(vdef, ph) ==
    IF ph \in DOMAIN LabelsOf(vdef)
    THEN LabelsOf(vdef)[ph]
    ELSE DefaultLabel([phase |-> ph, type |-> vdef.type])

\* C14 (as stated): for a vehicle of any mode, the status in a snapshot is the
\* definition's own label for the current phase when the definition has one,
\* and the default label of the phase otherwise
C14_Original ==
    payload # NoPayload =>
       \A i \in DOMAIN payload.vehicles :
          LET entry == payload.vehicles[i] IN
          entry.status = ClaimedStatus(VEHICLES_DEF[entry.id], entry.phase)

\* the same for the two modes whose state keeps the definition's labels
C14_GatedModes ==
    payload # NoPayload =>
       \A i \in DOMAIN payload.vehicles :
          LET entry == payload.vehicles[i] IN
          VEHICLES_DEF[entry.id].mode \notin {"fixed", "loop"} =>
             entry.status = ClaimedStatus(VEHICLES_DEF[entry.id], entry.phase)

---------------------------------------------------------------------------
(* C15 *)

\* the sospechoso of the example scenario: tick, visibility and place
C15_Suspect == vehicles_state["sospechoso"]

\* C15: in the shipped scenario (spawn 40, intercept 90, capture 130, reset
\* 240) a spawn-mode vehicle with a route of 50 points is invisible at the
\* ticks 0 .. 39, visible from tick 40 on, where it starts at route[0], at the last
\* point route[49] at every tick 89 .. 129, at its hold point at every tick
\* 130 .. 239, and hidden again at tick 0 of the next epoch
C15_ExampleTimeline ==
    LET st   == C15_Suspect
        last == Len0(st.route) - 1
    IN /\ tick < ExampleSpawn => ~st.visible /\ st.phase = "hidden"
       /\ tick >= ExampleSpawn => st.visible
       /\ tick = ExampleSpawn => Coord(st) = st.route[0]
       /\ (ExampleSpawn + last <= tick /\ tick < ExampleCapture) =>
             Coord(st) = st.route[last] /\ st.phase = "moving"
       /\ (ExampleCapture <= tick /\ tick < ExampleReset) =>
             Coord(st) = st.hold_position /\ st.phase = "hold"
       /\ tick < ExampleReset
       /\ payload # NoPayload =>
             ("sospechoso" \in Listed(payload)) = (payload.tick >= ExampleSpawn)

\* the reset has happened, the vehicle is hidden again
C15_Witness ==
    /\ tick = 0
    /\ payload.tick = 0
    /\ ~C15_Suspect.visible
    /\ Len0(C15_Suspect.route) = ExampleRouteLen
    /\ ExampleSpawn + ExampleRouteLen - 1 < ExampleCapture

---------------------------------------------------------------------------
(* C16 *)

\* C16: from the first send of a pass to its end, whatever sends succeed or
\* fail, the tick and the vehicle states stay as they are; when the pass ends
\* the registry has lost the connections whose send failed and no other, so a
\* connection whose sends succeeded is still registered; and the loop task
\* never ends because a send failed (it ends only when the iterator finds the
\* size of the registry changed)
C16_Frame ==
    [][ pc = "send" =>
          /\ tick' = tick
          /\ vehicles_state' = vehicles_state
          /\ payload' = payload
          /\ (pc' = "sleep" /\ task' = "running") =>
                /\ ws_clients' = ws_clients \ dead'
                /\ \A ws \in ws_clients : ws \notin dead' => ws \in ws_clients'
          /\ task' = "done" => Cardinality(ws_clients) # it_used
      ]_vars

\* a pass has ended: one send failed, one succeeded
C16_Witness ==
    /\ pc = "sleep"
    /\ task = "running"
    /\ dead # {}
    /\ dead \cap ws_clients = {}
    /\ \E ws \in ws_clients : received[ws] = << payload.tick, TRUE >>
    /\ payload.tick = tick

---------------------------------------------------------------------------
(* C17 *)

\* C17: the world at tick t is the world t advances after a fresh start, in
\* every epoch and whatever the subscribers did in the meantime: the vehicle
\* states (coordinate, phase, cursor, visibility) are a function of the tick
\* number alone, and so is the snapshot of tick t
C17_Replay ==
    LET w == WorldAt(tick) IN
    /\ vehicles_state = w
    /\ payload # NoPayload => payload = build_payload(tick, w)

\* a later epoch, after a failed delivery and with a subscriber that was served
\* in the epoch before
C17_Witness ==
    /\ tick >= INTERCEPT_START_TICK
    /\ dead # {}
    /\ \E ws \in Handles : received[ws] # << >> /\ ~received[ws][2]
    /\ \E ws \in Handles : ws \notin ws_clients

---------------------------------------------------------------------------
(* C18 *)

\* C18: whatever number of times start_simulation is called, at most one loop
\* task is alive (a task is created only when there is none or the last one
\* has finished), and every change of the tick is one advance of the whole
\* world: each vehicle advanced once for the new tick, or all of them reset
C18_SingleDriver ==
    /\ [](/\ live <= 1
          /\ (task = "running") = (live = 1)
          /\ pc = "send" => task = "running")
    /\ [][ tick' # tick =>
             \/ /\ tick' = tick + 1
                /\ vehicles_state' =
                     [id \in VehicleIds |-> AdvanceVehicle(vehicles_state[id], tick')]
             \/ /\ tick' = 0
                /\ vehicles_state' = FreshWorld
         ]_vars

\* the one loop task has advanced the world and is in the middle of a pass
C18_Witness ==
    /\ task = "running"
    /\ live = 1
    /\ pc = "send"
    /\ tick >= 1
    /\ payload.tick = tick
    /\ \E ws \in dead : ws \in ws_clients

---------------------------------------------------------------------------
(* C19 *)

\* C19: whenever control is outside _advance (every state of the model: _advance
\* runs inside one step) the tick is at least 0 and below the reset marker, and
\* no snapshot, built by the loop or handed out by get_current_state, carries a
\* tick that is not
C19_TickRange ==
    /\ 0 <= tick /\ tick < RESET_TICK
    /\ payload # NoPayload => 0 <= payload.tick /\ payload.tick < RESET_TICK
    /\ 0 <= CurrentState.tick /\ CurrentState.tick < RESET_TICK

\* the last tick of the longest epoch
C19_Witness ==
    /\ tick = RESET_TICK - 1
    /\ payload.tick = tick
    /\ epoch1 # << >>
    /\ RESET_TICK > MaxStage + MaxStage

---------------------------------------------------------------------------
(* C20 *)

\* the route a vehicle in its present phase reads next, << >> if it reads none
ActiveRoute(st) ==
    CASE st.mode = "loop" -> st.patrol_route
      [] st.mode = "loop_then_intercept_then_hold" /\ st.phase = "patrol" -> st.patrol_route
      [] st.mode = "loop_then_intercept_then_hold" /\ st.phase = "intercept" -> st.intercept_route
      [] st.mode = "spawn_then_route_then_hold" /\ st.phase \in {"hidden", "moving"} -> st.route
      [] OTHER -> << >>

\* C20: no route access of _advance is out of range: no advance has raised
\* IndexError, and the cursor of every vehicle is an index of the route of its
\* present phase, also on the first tick of the intercept stage (whatever the
\* patrol cursor was) and at every tick after a route is exhausted
C20_ValidIndex ==
    \A id \in VehicleIds :
       LET st == vehicles_state[id] IN
       /\ st.phase # "IndexError"
       /\ st.route_index >= 0
       /\ ActiveRoute(st) # << >> => st.route_index \in DOMAIN ActiveRoute(st)

\* the first tick of the intercept stage, the patrol cursor of the tick before
\* being past the end of the intercept route; and the suspect's route exhausted
C20_Witness ==
    LET st == vehicles_state["movil"]
        su == vehicles_state["sospechoso"]
    IN /\ tick = INTERCEPT_START_TICK
       /\ st.phase = "intercept"
       /\ (tick - 1) % Len0(st.patrol_route) >= Len0(st.intercept_route)
       /\ tick - su.spawn_tick >= Len0(su.route)
       /\ su.phase = "moving"

---------------------------------------------------------------------------
(* src/main.py: the ticket workflow                                        *)
(*                                                                         *)
(* Each endpoint runs in its own database session and commits once: a call *)
(* is one step.  A ticket row keeps the columns the endpoints compute;     *)
(* title, description, the dates and area_id are left out.  A description  *)
(* is the set of the keywords of classify_ticket that its lower-cased text *)
(* contains.                                                               *)

\* number of tickets that can be created
MaxTickets == 2

\* rows of table "users": register accepts these two roles
Users == { [id |-> 1, role |-> "ciudadano"], [id |-> 2, role |-> "operador"] }

\* a request whose token get_current_user rejects
Anonymous == [id |-> 0, role |-> "none"]

Callers == Users \cup {Anonymous}

\* current_user.role not in ["operador", "operator", "supervisor"]
OperatorRoles == {"operador", "operator", "supervisor"}

VALID == << "Recibido", "Asignado", "En Gestión", "Resuelto", "Cerrado" >>

ValidStatus == { VALID[i] : i \in DOMAIN VALID }

\* request bodies
Teams == {"Cuadrilla Norte"}
StatusInputs == ValidStatus \cup {"Pendiente", "cerrado"}
Descriptions == { {}, {"luz", "basura"} }
TicketIds == 1 .. (MaxTickets + 1)

classify_ticket(d) ==
    IF d \cap {"arbol", "árbol"} # {} THEN << "Áreas Verdes", 90 >>
    ELSE IF d \cap {"agua", "alcantarilla", "inundacion", "inundación"} # {}
    THEN << "Obras Sanitarias", 85 >>
    ELSE IF d \cap {"vereda", "hoyo", "bache", "pavimento"} # {}
    THEN << "Infraestructura", 80 >>
    ELSE IF d \cap {"luz", "alumbrado", "poste", "foco"} # {}
    THEN << "Alumbrado Público", 75 >>
    ELSE IF d \cap {"basura", "contenedor", "residuo"} # {}
    THEN << "Aseo", 70 >>
    ELSE << "Atención General", 50 >>

calculate_urgency(score) ==
    IF score >= 85 THEN "Alta" ELSE IF score >= 60 THEN "Media" ELSE "Baja"

\* Ticket(...): the row create_ticket adds; assigned_to is NULL
NewTicket(user, d) ==
    LET c == classify_ticket(d) IN
    [status |-> "Recibido", area_name |-> c[1], priority_score |-> c[2],
     urgency_level |-> calculate_urgency(c[2]), user_id |-> user.id,
     assigned_to |-> "NULL"]

\* the HTTP status and the committed table "tickets" of POST /tickets
create_ticket_response(tk, user, d) ==
    IF user = Anonymous THEN [code |-> 401, tickets |-> tk]
    ELSE [code |-> 200, tickets |-> Append(tk, NewTicket(user, d))]

\* mutant of assign_ticket_response: the status becomes Asignado whatever it was
assign_ticket_always(tk, user, ticket_id, assigned_to) ==
    IF user = Anonymous THEN [code |-> 401, tickets |-> tk]
    ELSE IF user.role \notin OperatorRoles THEN [code |-> 403, tickets |-> tk]
    ELSE IF ticket_id \notin DOMAIN tk THEN [code |-> 404, tickets |-> tk]
    ELSE [code |-> 200,
          tickets |-> [tk EXCEPT ![ticket_id].assigned_to = assigned_to,
                                 ![ticket_id].status = "Asignado"]]

\* the HTTP status and the committed table of PATCH /tickets/{ticket_id}/assign
assign_ticket_response(tk, user, ticket_id, assigned_to) ==
    IF user = Anonymous THEN [code |-> 401, tickets |-> tk]
    ELSE IF user.role \notin OperatorRoles THEN [code |-> 403, tickets |-> tk]
    ELSE IF ticket_id \notin DOMAIN tk THEN [code |-> 404, tickets |-> tk]
    ELSE LET t1 == [tk[ticket_id] EXCEPT !.assigned_to = assigned_to]
             t2 == IF t1.status = "Recibido"
                   THEN [t1 EXCEPT !.status = "Asignado"] ELSE t1
         IN [code |-> 200, tickets |-> [tk EXCEPT ![ticket_id] = t2]]

\* the HTTP status and the committed table of PATCH /tickets/{ticket_id}/status
update_status_response(tk, user, ticket_id, status) ==
    IF user = Anonymous THEN [code |-> 401, tickets |-> tk]
    ELSE IF user.role \notin OperatorRoles THEN [code |-> 403, tickets |-> tk]
    ELSE IF ticket_id \notin DOMAIN tk THEN [code |-> 404, tickets |-> tk]
    ELSE IF status \notin ValidStatus THEN [code |-> 400, tickets |-> tk]
    ELSE [code |-> 200, tickets |-> [tk EXCEPT ![ticket_id].status = status]]

EngineVars == << SCHEDULE, VEHICLES_DEF, tick, vehicles_state, ws_clients, task, pc,
                 payload, dead, cur, it_used, it_rest, it_dirty, received, audience,
                 epoch1, polled, live >>

create_ticket(user, d) ==
    /\ Len(tickets) < MaxTickets
    /\ tickets' = create_ticket_response(tickets, user, d).tickets
    /\ areas' = IF user = Anonymous THEN areas ELSE areas \cup {classify_ticket(d)[1]}
    /\ UNCHANGED EngineVars

assign_ticket(user, ticket_id, assigned_to) ==
    /\ tickets' = assign_ticket_response(tickets, user, ticket_id, assigned_to).tickets
    /\ UNCHANGED << areas, EngineVars >>

update_status(user, ticket_id, status) ==
    /\ tickets' = update_status_response(tickets, user, ticket_id, status).tickets
    /\ UNCHANGED << areas, EngineVars >>

NextTickets ==
    \/ \E user \in Callers, d \in Descriptions : create_ticket(user, d)
    \/ \E user \in Callers, id \in TicketIds, team \in Teams :
          assign_ticket(user, id, team)
    \/ \E user \in Callers, id \in TicketIds, status \in StatusInputs :
          update_status(user, id, status)

\* the tables are empty, the simulation engine is idle
SpecTickets == Init /\ [][NextTickets]_vars

---------------------------------------------------------------------------
(* C21 *)

\* the call is one the endpoint rejects
AssignRejected(tk, user, id) ==
    user.role \notin OperatorRoles \/ id \notin DOMAIN tk

UpdateRejected(tk, user, id, status) ==
    user.role \notin OperatorRoles \/ id \notin DOMAIN tk \/ status \notin ValidStatus

\* C21: in every table of tickets that create_ticket, assign_ticket and
\* update_status calls produce, every status is one of Recibido, Asignado,
\* En Gestión, Resuelto, Cerrado; from there, an assign_ticket call changes no
\* status but that of its ticket, from Recibido to Asignado, and a rejected
\* call of assign_ticket or update_status (caller not an operator, unknown
\* ticket, invalid status) is answered with an error and leaves the table as
\* it is
C21_TicketWorkflow ==
    /\ Len(tickets) <= MaxTickets
    /\ \A i \in DOMAIN tickets : tickets[i].status \in ValidStatus
    /\ \A user \in Callers, id \in TicketIds, team \in Teams :
          LET r == assign_ticket_response(tickets, user, id, team) IN
          /\ DOMAIN r.tickets = DOMAIN tickets
          /\ AssignRejected(tickets, user, id) => r.code # 200 /\ r.tickets = tickets
          /\ \A i \in DOMAIN tickets :
                r.tickets[i].status # tickets[i].status =>
                   /\ i = id
                   /\ tickets[i].status = "Recibido"
                   /\ r.tickets[i].status = "Asignado"
          /\ ~AssignRejected(tickets, user, id) =>
                /\ r.code = 200
                /\ r.tickets[id].assigned_to = team
                /\ tickets[id].status = "Recibido" => r.tickets[id].status = "Asignado"
    /\ \A user \in Callers, id \in TicketIds, status \in StatusInputs :
          LET r == update_status_response(tickets, user, id, status) IN
          /\ UpdateRejected(tickets, user, id, status) =>
                r.code # 200 /\ r.tickets = tickets
          /\ ~UpdateRejected(tickets, user, id, status) =>
                r.code = 200 /\ r.tickets[id].status = status

\* a ticket a citizen created was closed and then assigned, another was assigned
\* while Recibido; a citizen's assign call and an invalid status are rejected
C21_Witness ==
    /\ Len(tickets) = MaxTickets
    /\ \E i \in DOMAIN tickets :
          /\ tickets[i].status = "Cerrado"
          /\ tickets[i].assigned_to \in Teams
          /\ tickets[i].user_id = 1
    /\ \E i \in DOMAIN tickets :
          tickets[i].status = "Asignado" /\ tickets[i].assigned_to \in Teams
    /\ \E user \in Users :
          /\ assign_ticket_response(tickets, user, 1, "Cuadrilla Norte").code = 403
          /\ \E op \in Users : update_status_response(tickets, op, 1, "Pendiente").code = 400

===========================================================================
